---- MODULE Spec2Model ----
(***************************************************************************)
(* Workflow pipeline engine of src/src/factories/workflows.ts              *)
(* (WorkflowPipelineImpl): dependency resolution by depth-first            *)
(* topological sort, phase execution (parallel or sequential), checkpoint  *)
(* writes to the state store, aggregation into a WorkflowResult, the       *)
(* static checks of validate() and the progress report of monitor().       *)
(*                                                                         *)
(* A phase object is identified by its position in this.phases; phase ids  *)
(* are the values of the id field.  The collaborators (swarm.              *)
(* orchestrateTask, utils.batch, memory.storeWorkflowState) are the        *)
(* environment: a task returns success or failure or raises, a store write *)
(* returns or raises.  Date.now() is a clock that advances one unit per    *)
(* awaited call.  The pipeline factories of the same file are operators    *)
(* over their options, and UtilsModule.withCircuitBreaker of               *)
(* src/src/dagger/utils.ts is modelled step by step.                       *)
(***************************************************************************)
EXTENDS Integers, Sequences, FiniteSets, TLC

\* ------------------------------------------------------------------ bounds
MaxPhases == 3
MaxEdges == 3
MaxTasks == 3
MaxCalls == 2
MaxRetries == 3
MaxTimeout == 2

\* ------------------------------------------------------------- state
VARIABLES
    phases,        \* this.phases: sequence of WorkflowPhase records
    pc,            \* position of the execute() call
    sortedPhases,  \* const sortedPhases (positions into phases)
    cur,           \* position of the for-of loop in sortedPhases
    taskState,     \* per phase position, per task: what the executor did with it
    taskResults,   \* const taskResults of the sequential branch (success flags)
    phaseResults,  \* const phaseResults
    store,         \* the state store: checkpoints by key
    result,        \* the WorkflowResult returned by execute()
    caught,        \* the error bound in the catch clause
    thrown,        \* the first error a collaborator or the resolver raised
    raised,        \* the error execute() rejected with
    writes,        \* the storeWorkflowState calls that returned, in order
    calls,         \* per phase position, per task: orchestrateTask calls made
    validations,   \* the ValidationResults validate() returned, in order
    monitored,     \* the MonitoringResult the last monitor() call returned
    reads,         \* the retrieveWorkflowState calls made
    now,           \* what Date.now() returns
    phaseStartTime, \* const phaseStartTime of the loop body
    breaker        \* the withCircuitBreaker call: its position and locals

\* What the calls of validate() and monitor() leave behind.
callVars == <<validations, monitored, reads, breaker>>

vars == <<phases, pc, sortedPhases, cur, taskState, taskResults, phaseResults,
          store, result, caught, thrown, raised, writes, calls, callVars,
          now, phaseStartTime>>

\* ------------------------------------------------------------- helpers
Range(s) == {s[i] : i \in 1..Len(s)}

RECURSIVE SumSeq(_)
SumSeq(s) == IF s = <<>> THEN 0 ELSE s[1] + SumSeq(Tail(s))

\* Error values.  arg is the phase id of a cycle error, the write number of a
\* store error and the task number of an executor error.
NoError == [type |-> "none", arg |-> 0]
CircularError(phaseId) == [type |-> "Circular dependency detected involving phase", arg |-> phaseId]
StoreError(n) == [type |-> "store", arg |-> n]
TaskError(n) == [type |-> "task", arg |-> n]

\* ------------------------------------------------- dependency resolution
\* phases.find(p => p.id === phaseId): the position of the first phase with
\* that id, 0 for undefined.
FindPhase(ps, phaseId) ==
    IF \E i \in 1..Len(ps) : ps[i].id = phaseId
    THEN CHOOSE i \in 1..Len(ps) :
            /\ ps[i].id = phaseId
            /\ \A j \in 1..(i - 1) : ps[j].id # phaseId
    ELSE 0

NoCycle == 0

\* The closure state of topologicalSort: visited, visiting, result, and the id
\* named by the thrown error (NoCycle while nothing was thrown).
SortStart == [visited |-> {}, visiting |-> {}, result |-> <<>>, cycle |-> NoCycle]

RECURSIVE visit(_, _, _)
RECURSIVE VisitDeps(_, _, _, _)

\* visit with result.push(phase) moved before the loop over the dependencies.
visitPushFirst(ps, phaseId, st) ==
    IF phaseId \in st.visiting THEN [st EXCEPT !.cycle = phaseId]
    ELSE IF phaseId \in st.visited THEN st
    ELSE LET i == FindPhase(ps, phaseId)
             entered == [st EXCEPT !.visiting = @ \cup {phaseId}]
         IN  IF i = 0
             THEN [entered EXCEPT !.visiting = @ \ {phaseId}]
             ELSE LET after == VisitDeps(ps, ps[i].dependencies, 1,
                                         [entered EXCEPT !.result = Append(@, i)])
                  IN  IF after.cycle # NoCycle THEN after
                      ELSE [after EXCEPT !.visited = @ \cup {phaseId},
                                         !.visiting = @ \ {phaseId}]

\* visit with a single set: a phase is marked visited on entry and the
\* visiting set is never consulted.
visitSingleSet(ps, phaseId, st) ==
    IF phaseId \in st.visited THEN st
    ELSE LET i == FindPhase(ps, phaseId)
         IN  IF i = 0 THEN st
             ELSE LET after == VisitDeps(ps, ps[i].dependencies, 1,
                                         [st EXCEPT !.visited = @ \cup {phaseId}])
                  IN  [after EXCEPT !.result = Append(@, i)]

\* for (const dep of phase.dependencies) visit(dep); a throw ends the loop.
VisitDeps(ps, deps, k, st) ==
    IF k > Len(deps) \/ st.cycle # NoCycle THEN st
    ELSE VisitDeps(ps, deps, k + 1, visit(ps, deps[k], st))

visit(ps, phaseId, st) ==
    IF phaseId \in st.visiting THEN [st EXCEPT !.cycle = phaseId]
    ELSE IF phaseId \in st.visited THEN st
    ELSE LET i == FindPhase(ps, phaseId)
             entered == [st EXCEPT !.visiting = @ \cup {phaseId}]
         IN  IF i = 0
             THEN [entered EXCEPT !.visiting = @ \ {phaseId}]
             ELSE LET after == VisitDeps(ps, ps[i].dependencies, 1, entered)
                  IN  IF after.cycle # NoCycle THEN after
                      ELSE [after EXCEPT !.visited = @ \cup {phaseId},
                                         !.result = Append(@, i),
                                         !.visiting = @ \ {phaseId}]

RECURSIVE SortLoop(_, _, _)
\* for (const phase of phases) if (!visited.has(phase.id)) visit(phase.id)
SortLoop(ps, k, st) ==
    IF k > Len(ps) \/ st.cycle # NoCycle THEN st
    ELSE SortLoop(ps, k + 1,
                  IF ps[k].id \in st.visited THEN st ELSE visit(ps, ps[k].id, st))

\* [ok |-> TRUE, order |-> positions] or [ok |-> FALSE, cycle |-> id in the error]
topologicalSort(ps) ==
    LET st == SortLoop(ps, 1, SortStart)
    IN  IF st.cycle # NoCycle
        THEN [ok |-> FALSE, order |-> <<>>, cycle |-> st.cycle]
        ELSE [ok |-> TRUE, order |-> st.result, cycle |-> NoCycle]

\* ------------------------------------------------------------ validate()
RECURSIVE Flatten(_)
\* The concatenation of a sequence of sequences.
Flatten(ss) == IF ss = <<>> THEN <<>> ELSE ss[1] \o Flatten(Tail(ss))

\* !x for a string field: the empty string stands for '' and for undefined.
Falsy(x) == x = ""

\* Thresholds of the advisory checks.
LargeParallelPhase == 10
LargeWorkflow == 20

\* The errors of the loop over phase.dependencies of every phase.
DependencyErrors(ps) ==
    LET phaseIds == {ps[i].id : i \in 1..Len(ps)}
        missing(i) == SelectSeq(ps[i].dependencies, LAMBDA dep : dep \notin phaseIds)
    IN  Flatten([i \in 1..Len(ps) |->
                    [k \in 1..Len(missing(i)) |->
                        [error |-> "depends on non-existent phase",
                         phase |-> ps[i].id, dep |-> missing(i)[k]]]])

\* try { topologicalSort(phases); return false } catch { return true }
hasCircularDependencies(ps) == ~topologicalSort(ps).ok

CircularErrors(ps) ==
    IF hasCircularDependencies(ps)
    THEN <<[error |-> "Workflow contains circular dependencies", phase |-> 0, dep |-> 0]>>
    ELSE <<>>

\* The errors pushed for one task of phase phaseId.
TaskErrorsOf(phaseId, task) ==
    (IF Falsy(task.id) \/ Falsy(task.description)
     THEN <<[error |-> "contains invalid task: missing id or description",
             phase |-> phaseId, dep |-> 0]>>
     ELSE <<>>)
    \o (IF Falsy(task.agent)
        THEN <<[error |-> "has no assigned agent", phase |-> phaseId, dep |-> 0]>>
        ELSE <<>>)

TaskErrors(ps) ==
    Flatten([i \in 1..Len(ps) |->
                Flatten([j \in 1..Len(ps[i].tasks) |-> TaskErrorsOf(ps[i].id, ps[i].tasks[j])])])

\* The warnings about large parallel phases, by phase id.
Warnings(ps) ==
    LET large == SelectSeq(ps, LAMBDA phase :
                     phase.parallel /\ Len(phase.tasks) > LargeParallelPhase)
    IN  [k \in 1..Len(large) |-> [warning |-> "consider breaking it down",
                                   phase |-> large[k].id]]

\* this.phases.filter(p => no dependencies and no other phase depends on p)
isolatedPhases(ps) ==
    SelectSeq(ps, LAMBDA p :
        /\ Len(p.dependencies) = 0
        /\ ~\E o \in 1..Len(ps) : \E k \in 1..Len(ps[o].dependencies) :
                ps[o].dependencies[k] = p.id)

Suggestions(ps) ==
    (IF Len(ps) > LargeWorkflow
     THEN <<"Consider breaking down this workflow into smaller, composable workflows">>
     ELSE <<>>)
    \o (IF Len(isolatedPhases(ps)) > 1
        THEN <<"Consider running isolated phases in parallel for better performance">>
        ELSE <<>>)

\* validate with the warnings and suggestions counted against isValid.
validateAdvisoryBlocks(ps) ==
    LET errors == DependencyErrors(ps) \o CircularErrors(ps) \o TaskErrors(ps)
    IN  [isValid |-> Len(errors) = 0 /\ Len(Warnings(ps)) = 0 /\ Len(Suggestions(ps)) = 0,
         errors |-> errors,
         warnings |-> Warnings(ps),
         suggestions |-> Suggestions(ps)]

\* The ValidationResult of validate() on the phase list ps.
validate(ps) ==
    LET errors == DependencyErrors(ps) \o CircularErrors(ps) \o TaskErrors(ps)
    IN  [isValid |-> Len(errors) = 0,
         errors |-> errors,
         warnings |-> Warnings(ps),
         suggestions |-> Suggestions(ps)]

\* ------------------------------------------------------- phase execution
Phase(k) == phases[sortedPhases[k]]
CurPos == sortedPhases[cur]
CurPhase == phases[CurPos]
NumTasks(p) == Len(phases[p].tasks)

\* What the task executor did with a task: "idle" (never handed over),
\* "running" (handed over, not returned), "ok", "fail" (returned), "threw".
Invoked(p, j) == taskState[p][j] # "idle"
Returned(p, j) == taskState[p][j] \in {"ok", "fail", "threw"}

\* utils.batch(taskOperations): the BatchResult over the operations' outcomes;
\* an operation that rejected counts as a failed result.
batch(outcomes) ==
    LET good == {j \in 1..Len(outcomes) : outcomes[j] = "ok"}
    IN  [success |-> Cardinality(good) = Len(outcomes),
         totalTasks |-> Len(outcomes),
         successfulTasks |-> Cardinality(good),
         failedTasks |-> Len(outcomes) - Cardinality(good)]

\* phaseResult of the parallel branch with success taken to mean that some
\* task succeeded.
ParallelPhaseResultSomeSuccess(phase, results) ==
    [phaseId |-> phase.id,
     success |-> results.successfulTasks > 0,
     duration |-> now - phaseStartTime,
     tasks |-> Len(phase.tasks),
     results |-> results]

\* phaseResult of the parallel branch.
ParallelPhaseResult(phase, results) ==
    [phaseId |-> phase.id,
     success |-> results.success,
     duration |-> now - phaseStartTime,
     tasks |-> Len(phase.tasks),
     results |-> results]

\* phaseResult of the sequential branch with the failures counted against the
\* declared tasks instead of the results gathered.
SequentialPhaseResultDeclared(phase, trs, phaseSuccess) ==
    [phaseId |-> phase.id,
     success |-> phaseSuccess,
     duration |-> now - phaseStartTime,
     tasks |-> Len(phase.tasks),
     results |-> [success |-> phaseSuccess,
                  totalTasks |-> Len(phase.tasks),
                  successfulTasks |-> Cardinality({j \in 1..Len(trs) : trs[j]}),
                  failedTasks |-> Len(phase.tasks)
                                    - Cardinality({j \in 1..Len(trs) : trs[j]})]]

\* phaseResult of the sequential branch; trs is taskResults (success flags).
SequentialPhaseResult(phase, trs, phaseSuccess) ==
    [phaseId |-> phase.id,
     success |-> phaseSuccess,
     duration |-> now - phaseStartTime,
     tasks |-> Len(phase.tasks),
     results |-> [success |-> phaseSuccess,
                  totalTasks |-> Len(trs),
                  successfulTasks |-> Cardinality({j \in 1..Len(trs) : trs[j]}),
                  failedTasks |-> Cardinality({j \in 1..Len(trs) : ~trs[j]})]]

\* The loop without its break.
StopAfterNever(phaseResult) == FALSE

\* if (!phaseResult.success) break;
StopAfter(phaseResult) == ~phaseResult.success

\* The aggregate with success computed by some() instead of every().
WorkflowResultOfSome(prs) ==
    LET totalTasks == SumSeq([k \in 1..Len(prs) |-> prs[k].tasks])
        successfulTasks == SumSeq([k \in 1..Len(prs) |-> prs[k].results.successfulTasks])
    IN  [success |-> \E k \in 1..Len(prs) : prs[k].success,
         phases |-> prs,
         metrics |-> [totalTasks |-> totalTasks,
                      successfulTasks |-> successfulTasks,
                      failedTasks |-> totalTasks - successfulTasks,
                      qualityScore |-> [num |-> successfulTasks, den |-> totalTasks]]]

\* The aggregate with failedTasks summed from the phase results' failure counts.
WorkflowResultOfFailuresSummed(prs) ==
    LET totalTasks == SumSeq([k \in 1..Len(prs) |-> prs[k].tasks])
        successfulTasks == SumSeq([k \in 1..Len(prs) |-> prs[k].results.successfulTasks])
    IN  [success |-> \A k \in 1..Len(prs) : prs[k].success,
         phases |-> prs,
         metrics |-> [totalTasks |-> totalTasks,
                      successfulTasks |-> successfulTasks,
                      failedTasks |-> SumSeq([k \in 1..Len(prs) |-> prs[k].results.failedTasks]),
                      qualityScore |-> [num |-> successfulTasks, den |-> totalTasks]]]

\* The aggregate of the run: success and metrics of the WorkflowResult.
\* qualityScore is kept as the fraction successfulTasks / totalTasks.
WorkflowResultOf(prs) ==
    LET totalTasks == SumSeq([k \in 1..Len(prs) |-> prs[k].tasks])
        successfulTasks == SumSeq([k \in 1..Len(prs) |-> prs[k].results.successfulTasks])
    IN  [success |-> \A k \in 1..Len(prs) : prs[k].success,
         phases |-> prs,
         metrics |-> [totalTasks |-> totalTasks,
                      successfulTasks |-> successfulTasks,
                      failedTasks |-> totalTasks - successfulTasks,
                      qualityScore |-> [num |-> successfulTasks, den |-> totalTasks]]]

NoResult == [success |-> FALSE, phases |-> <<>>,
             metrics |-> [totalTasks |-> 0, successfulTasks |-> 0, failedTasks |-> 0,
                          qualityScore |-> [num |-> 0, den |-> 0]]]

\* --------------------------------------------------------- state store
\* A context field that is not there (undefined, which is falsy).
NoTime == 0

\* A checkpoint value: context.status, context.error, context.startTime,
\* context.completedAt, the number of phase results it carries and the
\* duration of the first of them.  status "none": the key was never written.
NoCheckpoint == [status |-> "none", error |-> NoError, results |-> 0,
                 startTime |-> NoTime, completedAt |-> NoTime, duration |-> 0]
Checkpoint(status, error, n) == [NoCheckpoint EXCEPT !.status = status,
                                                     !.error = error, !.results = n]
\* context: { startTime, status }
StartedAt(c, t) == [c EXCEPT !.startTime = t]
\* phaseResults: [phaseResult], context: { completedAt, status }
CompletedAt(c, t, d) == [c EXCEPT !.completedAt = t, !.duration = d]

RunKeys == {"started", "completed", "failed"}

\* memory.storeWorkflowState(this.id, key, value) for a run-level key.
PutRun(st, key, value) == [st EXCEPT !.run[key] = value]
\* memory.storeWorkflowState(this.id, phase.id, value).
PutPhase(st, phaseId, value) == [st EXCEPT !.phase[phaseId] = value]

\* An entry of the log of writes: the key written (a run-level key, or a phase
\* id) and the context.status of the value.
NoPhase == 0
RunWrite(key, status) == [run |-> key, phase |-> NoPhase, status |-> status]
PhaseWrite(phaseId, status) == [run |-> "", phase |-> phaseId, status |-> status]

\* ------------------------------------------------------------- monitor()
\* A listed state: the key, and context.status, context.startTime and
\* context.completedAt of the value stored under it.
Stored(w, c) == [run |-> w.run, phase |-> w.phase, status |-> w.status,
                 startTime |-> c.startTime, completedAt |-> c.completedAt]

\* The states retrieveWorkflowState lists: one entry for every key written.
Entries(st) ==
    {Stored(RunWrite(key, st.run[key].status), st.run[key]) :
                key \in {k \in RunKeys : st.run[k].status # "none"}}
    \cup {Stored(PhaseWrite(id, st.phase[id].status), st.phase[id]) :
                id \in {i \in DOMAIN st.phase : st.phase[i].status # "none"}}

RECURSIVE Listing(_)
\* The entries of S in some order.
Listing(S) ==
    IF S = {} THEN <<>>
    ELSE LET e == CHOOSE x \in S : TRUE IN <<e>> \o Listing(S \ {e})

\* What retrieveWorkflowState(this.id) can come back with: it rejects; it
\* reports a failure; it has no data (only while nothing was written); or it
\* lists the entries, in an order in which any of them may come first.
ReadOutcomes(st) ==
    {[success |-> FALSE, rejected |-> TRUE, hasData |-> FALSE, data |-> <<>>],
     [success |-> FALSE, rejected |-> FALSE, hasData |-> FALSE, data |-> <<>>]}
    \cup (IF Entries(st) = {}
          THEN {[success |-> TRUE, rejected |-> FALSE, hasData |-> FALSE, data |-> <<>>],
                [success |-> TRUE, rejected |-> FALSE, hasData |-> TRUE, data |-> <<>>]}
          ELSE {[success |-> TRUE, rejected |-> FALSE, hasData |-> TRUE,
                 data |-> <<e>> \o Listing(Entries(st) \ {e})] : e \in Entries(st)})

\* No monitor() call has returned.
NoMonitoring == [status |-> "none", progress |-> [num |-> 0, den |-> 1],
                 currentPhase |-> [run |-> "none", phase |-> NoPhase],
                 eta |-> [num |-> 0, den |-> 1],
                 metrics |-> [totalTasks |-> 0, successfulTasks |-> 0]]

\* monitor() rejected with the error of the read.
MonitorRaised == [NoMonitoring EXCEPT !.status = "raised"]

\* A number kept as the fraction num / den is the integer v (0 / 0 is none).
IsNumber(f, v) == f.den # 0 /\ f.num = v * f.den

\* states.find(state => context.status === 'running'): position, 0 for undefined.
FindRunning(states) ==
    IF \E i \in 1..Len(states) : states[i].status = "running"
    THEN CHOOSE i \in 1..Len(states) :
            /\ states[i].status = "running"
            /\ \A j \in 1..(i - 1) : states[j].status # "running"
    ELSE 0

\* runningPhase.key.split(':').pop(): the last segment of the key, which is
\* the run-level key or the phase id.
KeyName(state) == [run |-> state.run, phase |-> state.phase]

\* The MonitoringResult computed from what the read came back with (the read
\* did not reject).  progress is kept as the fraction
\* completedPhases * 100 / totalPhases, eta as the fraction
\* (totalPhases - completedPhases) * sum / Math.max(completedPhases, 1).
monitor(ps, read) ==
    IF ~read.success \/ ~read.hasData
    THEN [status |-> "failed", progress |-> [num |-> 0, den |-> 1],
          currentPhase |-> [run |-> "unknown", phase |-> NoPhase],
          eta |-> [num |-> 0, den |-> 1],
          metrics |-> [totalTasks |-> 0, successfulTasks |-> 0]]
    ELSE LET states == read.data
             completedPhases == Cardinality({i \in 1..Len(states) :
                                    states[i].status = "completed"})
             totalPhases == Len(ps)
             progress == [num |-> completedPhases * 100, den |-> totalPhases]
             runningPhase == FindRunning(states)
             Truthy(t) == t # NoTime
             sum == SumSeq([i \in 1..Len(states) |->
                        IF Truthy(states[i].completedAt) /\ Truthy(states[i].startTime)
                        THEN states[i].completedAt - states[i].startTime ELSE 0])
             Max(a, b) == IF a >= b THEN a ELSE b
         IN  [status |-> IF IsNumber(progress, 100) THEN "completed"
                         ELSE IF runningPhase # 0 THEN "running" ELSE "failed",
              progress |-> progress,
              currentPhase |-> IF runningPhase # 0 THEN KeyName(states[runningPhase])
                               ELSE [run |-> "completed", phase |-> NoPhase],
              eta |-> [num |-> (totalPhases - completedPhases) * sum,
                       den |-> Max(completedPhases, 1)],
              metrics |-> [totalTasks |-> SumSeq([i \in 1..Len(ps) |-> Len(ps[i].tasks)]),
                           successfulTasks |-> completedPhases * 2]]

\* ----------------------------------------------------- withCircuitBreaker
\* new Error('Operation timed out'), raised in attempt n.
TimeoutError(n) == [type |-> "Operation timed out", arg |-> n]
\* The error fn() rejected with in attempt n.
FnError(n) == [type |-> "fn", arg |-> n]

NoValue == 0

\* withCircuitBreaker has not been called.
NotCalled == [pc |-> "NotCalled", maxRetries |-> 0, timeout |-> 0, i |-> 0,
              fnCalls |-> 0, outcomes |-> <<>>, lastError |-> NoError,
              result |-> NoValue, raised |-> NoError]

\* What one call of fn() does: it resolves or rejects after some time, or
\* never settles.
FnBehaviours == [settles : {"resolve", "reject", "never"}, after : 1..(MaxTimeout + 1)]

\* Promise.race([fn(), timeoutPromise]): how the race can settle, for a timer
\* of timeout and a call that behaves as fn.  When both are due at the same
\* time either may come first.
Race(fn, timeout) ==
    IF fn.settles = "never" \/ fn.after > timeout THEN {"timeout"}
    ELSE IF fn.after < timeout THEN {fn.settles}
    ELSE {fn.settles, "timeout"}

\* ------------------------------------------------------------- pipelines
\* Sequences without repetition over S, of length at most k.
RECURSIVE NoDupSeqs(_, _)
NoDupSeqs(S, k) ==
    IF k = 0 THEN {<<>>}
    ELSE LET shorter == NoDupSeqs(S, k - 1)
         IN  shorter \cup UNION {{Append(s, x) : x \in S \ Range(s)} : s \in shorter}

\* Dependency lists of n phases over the ids 1..N+1 (N+1 names no phase), with
\* at most b dependencies in all.
RECURSIVE DepLists(_, _, _)
DepLists(n, N, b) ==
    IF n = 0 THEN {<<>>}
    ELSE UNION {{Append(g, d) : g \in DepLists(n - 1, N, b - Len(d))} :
                    d \in NoDupSeqs(1..(N + 1), b)}

\* The retry budget a task gets when none is given.
DefaultRetries == 2

\* A task with an id, a description, an agent and the default retry budget.
WellFormedTask == [id |-> "task", description |-> "work", agent |-> "coder",
                   retries |-> DefaultRetries]

\* Tasks with any of id, description and agent left empty.
TaskShapes == [id : {"", "task"}, description : {"", "work"}, agent : {"", "coder"},
               retries : {DefaultRetries}]

\* The phase list of n phases with distinct ids 1..n in list order, dependency
\* lists deps, parallel flags par, and k copies of task in every phase.
PipelineWith(n, deps, par, k, task) ==
    [i \in 1..n |-> [id |-> i,
                     dependencies |-> deps[i],
                     tasks |-> [j \in 1..k |-> task],
                     parallel |-> par[i]]]

\* The phase list of n phases with distinct ids 1..n in list order, dependency
\* lists deps, parallel flags par, and k tasks in every phase.
PipelineOf(n, deps, par, k) == PipelineWith(n, deps, par, k, WellFormedTask)

\* phases is a pipeline of up to MaxPhases phases with at most e dependencies
\* in all, over declared and undeclared ids, all phases parallel or all
\* sequential, and a task count taken from K.
ConstructedFrom(e, K) ==
    \E n \in 0..MaxPhases :
        \E deps \in DepLists(n, n, e), b \in BOOLEAN, k \in K :
            phases = PipelineOf(n, deps, [i \in 1..n |-> b], k)

\* phases is a staged pipeline of up to MaxPhases phases, each depending on
\* the phase declared before it, every phase parallel or sequential, with a
\* task count taken from K.
StagedFrom(K) ==
    \E n \in 0..MaxPhases :
        \E par \in [1..n -> BOOLEAN], k \in K :
            phases = PipelineOf(n, [i \in 1..n |-> IF i = 1 THEN <<>> ELSE <<i - 1>>],
                                par, k)

\* ------------------------------------------------------------- factories
\* The phase ids the factories use, as numbers.
planning == 1
database == 2
backend == 3
frontend == 4
mobile == 5
testing == 6
documentation == 7
deployment == 8
dataAnalysis == 11
dataProcessing == 12
featureEngineering == 13
modelTraining == 14
validation == 15
codeAnalysis == 21
qualityReview == 22
securityReview == 23
reportGeneration == 24

\* A task as the factories write it; the description is a template around
\* the project name or repository URL, never empty.
Task(id, agent, retries) ==
    [id |-> id, description |-> "described", agent |-> agent, retries |-> retries]

WorkflowPhase(id, deps, par, tasks) ==
    [id |-> id, dependencies |-> deps, parallel |-> par, tasks |-> tasks]

\* if (cond) phases.push(phase) / if (cond) dependencies.push(dep)
PushIf(cond, x) == IF cond THEN <<x>> ELSE <<>>

\* if (dependencies.length === 0) dependencies.push(dep)
OrElse(deps, dep) == IF Len(deps) = 0 THEN <<dep>> ELSE deps

FullStackOptions ==
    [includeBackend : BOOLEAN, includeFrontend : BOOLEAN, includeDatabase : BOOLEAN,
     includeMobile : BOOLEAN, includeTests : BOOLEAN, includeDocumentation : BOOLEAN,
     includeDeploy : BOOLEAN]

\* The values the options take when the caller leaves them out.
FullStackDefaults ==
    [includeBackend |-> TRUE, includeFrontend |-> TRUE, includeDatabase |-> TRUE,
     includeMobile |-> FALSE, includeTests |-> TRUE, includeDocumentation |-> TRUE,
     includeDeploy |-> FALSE]

\* Phase 8 of createFullStackPipeline.
FullStackDeployment(o) ==
    PushIf(o.includeDeploy,
        WorkflowPhase(deployment,
            <<testing>> \o PushIf(o.includeDocumentation, documentation),
            FALSE,
            <<Task("cicd-pipeline", "cicd-engineer", 3),
              Task("production-deploy", "cicd-engineer", 5)>>))

\* Phases 1 to 7 of createFullStackPipeline.
FullStackDevelopment(o) ==
    <<WorkflowPhase(planning, <<>>, TRUE,
        <<Task("requirements-analysis", "researcher", 2),
          Task("system-architecture", "system-architect", 2)>>)>>
    \o PushIf(o.includeDatabase,
        WorkflowPhase(database, <<planning>>, FALSE,
            <<Task("database-schema", "code-analyzer", 2),
              Task("database-migrations", "backend-dev", 2)>>))
    \o PushIf(o.includeBackend,
        WorkflowPhase(backend,
            IF o.includeDatabase THEN <<database>> ELSE <<planning>>, TRUE,
            <<Task("api-design", "api-docs", 2),
              Task("backend-implementation", "backend-dev", 3),
              Task("authentication", "security-manager", 3)>>))
    \o PushIf(o.includeFrontend,
        WorkflowPhase(frontend,
            IF o.includeBackend THEN <<backend>> ELSE <<planning>>, TRUE,
            <<Task("ui-design", "coder", 2),
              Task("frontend-implementation", "coder", 3),
              Task("state-management", "coder", 2)>>))
    \o PushIf(o.includeMobile,
        WorkflowPhase(mobile,
            IF o.includeBackend THEN <<backend>> ELSE <<planning>>, TRUE,
            <<Task("mobile-app", "mobile-dev", 3)>>))
    \o PushIf(o.includeTests,
        WorkflowPhase(testing,
            OrElse(PushIf(o.includeBackend, backend) \o PushIf(o.includeFrontend, frontend)
                      \o PushIf(o.includeMobile, mobile), planning),
            TRUE,
            <<Task("unit-tests", "tester", 2),
              Task("integration-tests", "tester", 2),
              Task("e2e-tests", "tester", 2),
              Task("performance-tests", "perf-analyzer", 2)>>))
    \o PushIf(o.includeDocumentation,
        WorkflowPhase(documentation,
            OrElse(PushIf(o.includeBackend, backend) \o PushIf(o.includeFrontend, frontend)
                      \o PushIf(o.includeMobile, mobile) \o PushIf(o.includeTests, testing),
                   planning),
            TRUE,
            <<Task("api-documentation", "api-docs", 1),
              Task("user-documentation", "coder", 1)>>))

\* createFullStackPipeline declaring the deployment phase first.
createFullStackPipelineDeployFirst(o) ==
    FullStackDeployment(o) \o FullStackDevelopment(o)

\* The phases createFullStackPipeline hands to the constructor.
createFullStackPipeline(o) == FullStackDevelopment(o) \o FullStackDeployment(o)

MLOptions ==
    [includeDataProcessing : BOOLEAN, includeFeatureEngineering : BOOLEAN,
     includeModelValidation : BOOLEAN, includeDeployment : BOOLEAN]

MLDefaults ==
    [includeDataProcessing |-> TRUE, includeFeatureEngineering |-> TRUE,
     includeModelValidation |-> TRUE, includeDeployment |-> FALSE]

\* The phases createMLPipeline hands to the constructor.
createMLPipeline(o) ==
    <<WorkflowPhase(dataAnalysis, <<>>, FALSE,
        <<Task("data-exploration", "ml-developer", 2)>>)>>
    \o PushIf(o.includeDataProcessing,
        WorkflowPhase(dataProcessing, <<dataAnalysis>>, TRUE,
            <<Task("data-cleaning", "ml-developer", 2),
              Task("data-validation", "tester", 2)>>))
    \o PushIf(o.includeFeatureEngineering,
        WorkflowPhase(featureEngineering,
            IF o.includeDataProcessing THEN <<dataProcessing>> ELSE <<dataAnalysis>>, FALSE,
            <<Task("feature-selection", "ml-developer", 3)>>))
    \o <<WorkflowPhase(modelTraining,
            IF o.includeFeatureEngineering THEN <<featureEngineering>>
            ELSE IF o.includeDataProcessing THEN <<dataProcessing>> ELSE <<dataAnalysis>>,
            TRUE,
            <<Task("model-training", "ml-developer", 3),
              Task("hyperparameter-tuning", "perf-analyzer", 2)>>)>>
    \o PushIf(o.includeModelValidation,
        WorkflowPhase(validation, <<modelTraining>>, TRUE,
            <<Task("model-validation", "tester", 2),
              Task("performance-analysis", "perf-analyzer", 2)>>))
    \o PushIf(o.includeDeployment,
        WorkflowPhase(deployment,
            IF o.includeModelValidation THEN <<validation>> ELSE <<modelTraining>>, FALSE,
            <<Task("model-packaging", "cicd-engineer", 2),
              Task("model-deployment", "cicd-engineer", 3)>>))

CodeReviewOptions == [reviewDepth : {"basic", "comprehensive", "security-focused"}]

\* The phases createCodeReviewPipeline hands to the constructor.
createCodeReviewPipeline(o) ==
    LET deep == o.reviewDepth = "comprehensive" \/ o.reviewDepth = "security-focused"
    IN  <<WorkflowPhase(codeAnalysis, <<>>, TRUE,
            <<Task("static-analysis", "code-analyzer", 2),
              Task("complexity-analysis", "perf-analyzer", 2)>>),
          WorkflowPhase(qualityReview, <<codeAnalysis>>, TRUE,
            <<Task("code-quality", "reviewer", 2),
              Task("test-coverage", "tester", 2)>>)>>
        \o PushIf(deep,
            WorkflowPhase(securityReview, <<qualityReview>>, TRUE,
                <<Task("security-scan", "security-manager", 3),
                  Task("dependency-audit", "security-manager", 2)>>))
        \o <<WorkflowPhase(reportGeneration,
                IF deep THEN <<securityReview>> ELSE <<qualityReview>>, FALSE,
                <<Task("generate-report", "reviewer", 1)>>)>>

\* The state after construction, before any call.
Constructed ==
    /\ pc = "NotStarted"
    /\ sortedPhases = <<>>
    /\ cur = 0
    /\ taskState = [p \in 1..Len(phases) |-> [j \in 1..Len(phases[p].tasks) |-> "idle"]]
    /\ taskResults = <<>>
    /\ phaseResults = <<>>
    /\ store = [run |-> [k \in RunKeys |-> NoCheckpoint],
                phase |-> [i \in {phases[p].id : p \in 1..Len(phases)} |-> NoCheckpoint]]
    /\ result = NoResult
    /\ caught = NoError
    /\ thrown = NoError
    /\ raised = NoError
    /\ writes = <<>>
    /\ calls = [p \in 1..Len(phases) |-> [j \in 1..Len(phases[p].tasks) |-> 0]]
    /\ validations = <<>>
    /\ monitored = NoMonitoring
    /\ reads = 0
    /\ now = 1
    /\ phaseStartTime = NoTime
    /\ breaker = NotCalled

\* The pipelines execute() is run on: arbitrary dependency lists over phases of
\* at most one task, and staged pipelines with up to MaxTasks tasks a phase.
Init ==
    /\ \/ ConstructedFrom(MaxEdges - 1, {0, 1})
       \/ StagedFrom(0..MaxTasks)
    /\ Constructed

\* The phase lists validate() alone is applied to: arbitrary dependency lists
\* over phases of at most one task of any shape, and pipelines without
\* dependencies around the thresholds of the advisory checks.
InitValidate ==
    /\ \/ \E n \in 0..MaxPhases :
             \E deps \in DepLists(n, n, MaxEdges - 1), b \in BOOLEAN, k \in {0, 1},
                task \in TaskShapes :
                 phases = PipelineWith(n, deps, [i \in 1..n |-> b], k, task)
       \/ \E n \in {1, LargeWorkflow, LargeWorkflow + 1} :
             \E b \in BOOLEAN, k \in {0, LargeParallelPhase, LargeParallelPhase + 1},
                task \in TaskShapes :
                 phases = PipelineWith(n, [i \in 1..n |-> <<>>], [i \in 1..n |-> b],
                                       k, task)
    /\ Constructed

\* The phase lists the resolver alone is applied to.
InitSort ==
    /\ ConstructedFrom(MaxEdges, {0})
    /\ Constructed

\* ------------------------------------------------------------- execute()
\* An await takes one unit of time.
Tick == now' = now + 1

\* Enter the catch clause with error e.
Throw(e) ==
    /\ caught' = e
    /\ thrown' = e
    /\ pc' = "Catch"

\* The loop goes on to the phase at position k of sortedPhases, or leaves.
LoopTo(k, order) == IF k > Len(order) THEN "Finalize" ELSE "PhaseStart"

\* await storeWorkflowState(this.id, 'started', ...): before the try block.
StoreStarted ==
    /\ pc = "NotStarted"
    /\ \/ /\ store' = PutRun(store, "started",
                             StartedAt(Checkpoint("running", NoError, 0), now))
          /\ writes' = Append(writes, RunWrite("started", "running"))
          /\ pc' = "Resolve"
          /\ UNCHANGED <<thrown, raised>>
       \/ /\ thrown' = StoreError(1)
          /\ raised' = StoreError(1)
          /\ pc' = "Raised"
          /\ UNCHANGED <<store, writes>>
    /\ Tick
    /\ UNCHANGED <<phases, phaseStartTime, sortedPhases, cur, taskState, taskResults, phaseResults,
                   result, caught, calls, callVars>>

\* const sortedPhases = this.topologicalSort(this.phases)
Resolve ==
    /\ pc = "Resolve"
    /\ LET r == topologicalSort(phases)
       IN  \/ /\ r.ok
              /\ sortedPhases' = r.order
              /\ cur' = 1
              /\ pc' = LoopTo(1, r.order)
              /\ UNCHANGED <<caught, thrown>>
           \/ /\ ~r.ok
              /\ Throw(CircularError(r.cycle))
              /\ UNCHANGED <<sortedPhases, cur>>
    /\ Tick
    /\ UNCHANGED <<phases, phaseStartTime, taskState, taskResults, phaseResults, store, result, raised,
                   writes, calls, callVars>>

\* The loop body without the store of the phase start.
PhaseStartUnrecorded ==
    /\ pc = "PhaseStart"
    /\ pc' = IF CurPhase.parallel THEN "Dispatch" ELSE "SeqNext"
    /\ taskResults' = <<>>
    /\ phaseStartTime' = now
    /\ Tick
    /\ UNCHANGED <<phases, sortedPhases, cur, taskState, phaseResults, result, raised,
                   store, writes, caught, thrown, calls, callVars>>

\* Store phase start, then branch on phase.parallel.
PhaseStart ==
    /\ pc = "PhaseStart"
    /\ \/ /\ store' = PutPhase(store, CurPhase.id,
                               StartedAt(Checkpoint("running", NoError, 0), now))
          /\ writes' = Append(writes, PhaseWrite(CurPhase.id, "running"))
          /\ pc' = IF CurPhase.parallel THEN "Dispatch" ELSE "SeqNext"
          /\ taskResults' = <<>>
          /\ UNCHANGED <<caught, thrown>>
       \/ /\ Throw(StoreError(2))
          /\ UNCHANGED <<store, writes, taskResults>>
    /\ phaseStartTime' = now
    /\ Tick
    /\ UNCHANGED <<phases, sortedPhases, cur, taskState, phaseResults, result, raised,
                   calls, callVars>>

\* The parallel branch with the batch not awaited: the tasks are handed over
\* and the phase is recorded as successful at once.
BatchDispatchNotAwaited ==
    /\ pc = "Dispatch"
    /\ taskState' = [taskState EXCEPT ![CurPos] = [j \in DOMAIN @ |-> "running"]]
    /\ calls' = [calls EXCEPT ![CurPos] = [j \in DOMAIN @ |-> @[j] + 1]]
    /\ phaseResults' = Append(phaseResults,
           ParallelPhaseResult(CurPhase, batch([j \in DOMAIN taskState[CurPos] |-> "ok"])))
    /\ pc' = "PhaseDone"
    /\ Tick
    /\ UNCHANGED <<phases, phaseStartTime, sortedPhases, cur, taskResults, store,
                   result, caught, thrown, raised, writes, callVars>>

\* utils.batch(taskOperations) hands every task of the phase to the executor.
BatchDispatch ==
    /\ pc = "Dispatch"
    /\ taskState' = [taskState EXCEPT ![CurPos] = [j \in DOMAIN @ |-> "running"]]
    /\ calls' = [calls EXCEPT ![CurPos] = [j \in DOMAIN @ |-> @[j] + 1]]
    /\ pc' = "AwaitBatch"
    /\ Tick
    /\ UNCHANGED <<phases, phaseStartTime, sortedPhases, cur, taskResults, phaseResults, store,
                   result, caught, thrown, raised, writes, callVars>>

\* One task of the batch settles: it returns success or failure, or rejects.
BatchTaskReturn ==
    /\ pc = "AwaitBatch"
    /\ \E j \in DOMAIN taskState[CurPos] : \E outcome \in {"ok", "fail", "threw"} :
          /\ taskState[CurPos][j] = "running"
          /\ taskState' = [taskState EXCEPT ![CurPos][j] = outcome]
    /\ Tick
    /\ UNCHANGED <<phases, phaseStartTime, pc, sortedPhases, cur, taskResults, phaseResults, store,
                   result, caught, thrown, raised, writes, calls, callVars>>

\* The batch resolving only once every operation returned success: after a
\* failed or rejected operation it never resolves.
BatchJoinAllSucceeded ==
    /\ pc = "AwaitBatch"
    /\ \A j \in DOMAIN taskState[CurPos] : taskState[CurPos][j] = "ok"
    /\ phaseResults' = Append(phaseResults,
                              ParallelPhaseResult(CurPhase, batch(taskState[CurPos])))
    /\ pc' = "PhaseDone"
    /\ Tick
    /\ UNCHANGED <<phases, phaseStartTime, sortedPhases, cur, taskState, taskResults, store, result,
                   caught, thrown, raised, writes, calls, callVars>>

\* The batch resolves once every operation settled; phaseResults.push.
BatchJoin ==
    /\ pc = "AwaitBatch"
    /\ \A j \in DOMAIN taskState[CurPos] : Returned(CurPos, j)
    /\ phaseResults' = Append(phaseResults,
                              ParallelPhaseResult(CurPhase, batch(taskState[CurPos])))
    /\ pc' = "PhaseDone"
    /\ Tick
    /\ UNCHANGED <<phases, phaseStartTime, sortedPhases, cur, taskState, taskResults, store, result,
                   caught, thrown, raised, writes, calls, callVars>>

\* Head of the sequential loop: hand over the next task, or leave the loop
\* with phaseSuccess still true and push the phase result.
SeqNext ==
    /\ pc = "SeqNext"
    /\ \/ /\ Len(taskResults) < NumTasks(CurPos)
          /\ taskState' = [taskState EXCEPT ![CurPos][Len(taskResults) + 1] = "running"]
          /\ calls' = [calls EXCEPT ![CurPos][Len(taskResults) + 1] = @ + 1]
          /\ pc' = "SeqAwait"
          /\ UNCHANGED phaseResults
       \/ /\ Len(taskResults) >= NumTasks(CurPos)
          /\ phaseResults' = Append(phaseResults,
                                    SequentialPhaseResult(CurPhase, taskResults, TRUE))
          /\ pc' = "PhaseDone"
          /\ UNCHANGED <<taskState, calls>>
    /\ Tick
    /\ UNCHANGED <<phases, phaseStartTime, sortedPhases, cur, taskResults, store, result, caught,
                   thrown, raised, writes, callVars>>

\* The sequential loop handing a failed task to the executor again while its
\* retry budget lasts.
SeqReturnRetrying ==
    /\ pc = "SeqAwait"
    /\ LET j == Len(taskResults) + 1
       IN  \/ /\ taskState' = [taskState EXCEPT ![CurPos][j] = "ok"]
              /\ taskResults' = Append(taskResults, TRUE)
              /\ pc' = "SeqNext"
              /\ UNCHANGED <<phaseResults, caught, thrown, calls>>
           \/ /\ calls[CurPos][j] <= CurPhase.tasks[j].retries
              /\ calls' = [calls EXCEPT ![CurPos][j] = @ + 1]
              /\ UNCHANGED <<taskState, taskResults, phaseResults, pc, caught, thrown>>
           \/ /\ calls[CurPos][j] > CurPhase.tasks[j].retries
              /\ taskState' = [taskState EXCEPT ![CurPos][j] = "fail"]
              /\ taskResults' = Append(taskResults, FALSE)
              /\ phaseResults' = Append(phaseResults,
                    SequentialPhaseResult(CurPhase, Append(taskResults, FALSE), FALSE))
              /\ pc' = "PhaseDone"
              /\ UNCHANGED <<caught, thrown, calls>>
           \/ /\ taskState' = [taskState EXCEPT ![CurPos][j] = "threw"]
              /\ Throw(TaskError(j))
              /\ UNCHANGED <<taskResults, phaseResults, calls>>
    /\ Tick
    /\ UNCHANGED <<phases, phaseStartTime, sortedPhases, cur, store, result, raised, writes, callVars>>

\* await orchestrateTask(task) settles in the sequential loop.
SeqReturn ==
    /\ pc = "SeqAwait"
    /\ LET j == Len(taskResults) + 1
       IN  \/ /\ taskState' = [taskState EXCEPT ![CurPos][j] = "ok"]
              /\ taskResults' = Append(taskResults, TRUE)
              /\ pc' = "SeqNext"
              /\ UNCHANGED <<phaseResults, caught, thrown>>
           \/ /\ taskState' = [taskState EXCEPT ![CurPos][j] = "fail"]
              /\ taskResults' = Append(taskResults, FALSE)
              /\ phaseResults' = Append(phaseResults,
                    SequentialPhaseResult(CurPhase, Append(taskResults, FALSE), FALSE))
              /\ pc' = "PhaseDone"
              /\ UNCHANGED <<caught, thrown>>
           \/ /\ taskState' = [taskState EXCEPT ![CurPos][j] = "threw"]
              /\ Throw(TaskError(j))
              /\ UNCHANGED <<taskResults, phaseResults>>
    /\ Tick
    /\ UNCHANGED <<phases, phaseStartTime, sortedPhases, cur, store, result, raised, writes, calls,
                   callVars>>

\* Store phase completion, then break on an unsuccessful phase.
PhaseDone ==
    /\ pc = "PhaseDone"
    /\ LET pr == phaseResults[Len(phaseResults)]
       IN  \/ /\ store' = PutPhase(store, CurPhase.id,
                     CompletedAt(Checkpoint(IF pr.success THEN "completed" ELSE "failed",
                                            NoError, 1), now, pr.duration))
              /\ writes' = Append(writes,
                     PhaseWrite(CurPhase.id, IF pr.success THEN "completed" ELSE "failed"))
              /\ IF StopAfter(pr)
                 THEN pc' = "Finalize" /\ UNCHANGED cur
                 ELSE pc' = LoopTo(cur + 1, sortedPhases) /\ cur' = cur + 1
              /\ UNCHANGED <<caught, thrown>>
           \/ /\ Throw(StoreError(3))
              /\ UNCHANGED <<store, writes, cur>>
    /\ Tick
    /\ UNCHANGED <<phases, phaseStartTime, sortedPhases, taskState, taskResults, phaseResults, result,
                   raised, calls, callVars>>

\* Build the WorkflowResult, store the final workflow state, return.
Finalize ==
    /\ pc = "Finalize"
    /\ LET r == WorkflowResultOf(phaseResults)
       IN  \/ /\ store' = PutRun(store, "completed",
                     CompletedAt(Checkpoint(IF r.success THEN "completed" ELSE "failed",
                                            NoError, Len(phaseResults)),
                                 now, IF phaseResults = <<>> THEN 0
                                      ELSE phaseResults[1].duration))
              /\ writes' = Append(writes,
                     RunWrite("completed", IF r.success THEN "completed" ELSE "failed"))
              /\ result' = r
              /\ pc' = "Returned"
              /\ UNCHANGED <<caught, thrown>>
           \/ /\ Throw(StoreError(4))
              /\ UNCHANGED <<store, writes, result>>
    /\ Tick
    /\ UNCHANGED <<phases, phaseStartTime, sortedPhases, cur, taskState, taskResults, phaseResults,
                   raised, calls, callVars>>

\* catch (error): store the 'failed' state, then throw error.
Catch ==
    /\ pc = "Catch"
    /\ \/ /\ store' = PutRun(store, "failed",
                             Checkpoint("failed", caught, Len(phaseResults)))
          /\ writes' = Append(writes, RunWrite("failed", "failed"))
          /\ raised' = caught
       \/ /\ raised' = StoreError(5)
          /\ UNCHANGED <<store, writes>>
    /\ pc' = "Raised"
    /\ Tick
    /\ UNCHANGED <<phases, phaseStartTime, sortedPhases, cur, taskState, taskResults, phaseResults,
                   result, caught, thrown, calls, callVars>>

\* hasCircularDependencies(): topologicalSort applied to this.phases outside
\* any run; the order it returns, or the error it throws, is kept.
HasCircularDependencies ==
    /\ pc = "NotStarted"
    /\ LET r == topologicalSort(phases)
       IN  /\ sortedPhases' = r.order
           /\ thrown' = IF r.ok THEN NoError ELSE CircularError(r.cycle)
    /\ pc' = "Sorted"
    /\ UNCHANGED <<phases, now, phaseStartTime, cur, taskState, taskResults, phaseResults, store, result,
                   caught, raised, writes, calls, callVars>>

\* validate that records an invalid pipeline in the state store.
ValidateRecording ==
    /\ Len(validations) < MaxCalls
    /\ validations' = Append(validations, validate(phases))
    /\ store' = IF validate(phases).isValid THEN store
                ELSE PutRun(store, "failed", Checkpoint("failed", NoError, 0))
    /\ UNCHANGED <<phases, now, phaseStartTime, breaker, pc, sortedPhases, cur, taskState, taskResults, phaseResults,
                   result, caught, thrown, raised, writes, calls, monitored, reads>>

\* validate(): no await inside, so one step; the result is handed to the caller.
Validate ==
    /\ Len(validations) < MaxCalls
    /\ validations' = Append(validations, validate(phases))
    /\ UNCHANGED <<phases, now, phaseStartTime, breaker, pc, sortedPhases, cur, taskState, taskResults, phaseResults,
                   store, result, caught, thrown, raised, writes, calls, monitored,
                   reads>>

\* monitor(): the read of the store, then the result computed from it, handed
\* to the caller; a rejected read rejects the call.
Monitor ==
    /\ reads < MaxCalls
    /\ reads' = reads + 1
    /\ \E read \in ReadOutcomes(store) :
          monitored' = IF read.rejected THEN MonitorRaised ELSE monitor(phases, read)
    /\ UNCHANGED <<phases, now, phaseStartTime, breaker, pc, sortedPhases, cur, taskState, taskResults, phaseResults,
                   store, result, caught, thrown, raised, writes, calls, validations>>

\* The call withCircuitBreaker(fn, maxRetries, timeout): let i = 0.
WithCircuitBreaker ==
    /\ breaker.pc = "NotCalled"
    /\ \E m \in 0..MaxRetries, t \in 1..MaxTimeout :
          breaker' = [NotCalled EXCEPT !.pc = "Loop", !.maxRetries = m, !.timeout = t]
    /\ UNCHANGED <<phases, pc, sortedPhases, cur, taskState, taskResults, phaseResults,
                   store, result, caught, thrown, raised, writes, calls, now,
                   phaseStartTime, validations, monitored, reads>>

\* The loop head that makes one attempt too many.
BreakerLoopInclusive ==
    /\ breaker.pc = "Loop"
    /\ breaker' = IF breaker.i <= breaker.maxRetries
                  THEN [breaker EXCEPT !.pc = "Race", !.fnCalls = @ + 1]
                  ELSE [breaker EXCEPT !.pc = "Raised", !.raised = breaker.lastError]
    /\ UNCHANGED <<phases, pc, sortedPhases, cur, taskState, taskResults, phaseResults,
                   store, result, caught, thrown, raised, writes, calls, now,
                   phaseStartTime, validations, monitored, reads>>

\* for (i < maxRetries): set the timer and call fn(); after the loop, throw
\* lastError.
BreakerLoop ==
    /\ breaker.pc = "Loop"
    /\ breaker' = IF breaker.i < breaker.maxRetries
                  THEN [breaker EXCEPT !.pc = "Race", !.fnCalls = @ + 1]
                  ELSE [breaker EXCEPT !.pc = "Raised", !.raised = breaker.lastError]
    /\ UNCHANGED <<phases, pc, sortedPhases, cur, taskState, taskResults, phaseResults,
                   store, result, caught, thrown, raised, writes, calls, now,
                   phaseStartTime, validations, monitored, reads>>

\* await Promise.race(...) settles: return the value of this attempt, or
\* keep the error as lastError and back off unless this was the last attempt.
BreakerRace ==
    /\ breaker.pc = "Race"
    /\ \E fn \in FnBehaviours : \E outcome \in Race(fn, breaker.timeout) :
          LET attempt == breaker.i + 1
          IN  breaker' =
                IF outcome = "resolve"
                THEN [breaker EXCEPT !.pc = "Returned", !.result = attempt,
                                     !.outcomes = Append(@, outcome)]
                ELSE [breaker EXCEPT
                        !.lastError = IF outcome = "timeout" THEN TimeoutError(attempt)
                                      ELSE FnError(attempt),
                        !.outcomes = Append(@, outcome),
                        !.pc = IF breaker.i < breaker.maxRetries - 1
                               THEN "Backoff" ELSE "Loop",
                        !.i = IF breaker.i < breaker.maxRetries - 1 THEN @ ELSE @ + 1]
    /\ UNCHANGED <<phases, pc, sortedPhases, cur, taskState, taskResults, phaseResults,
                   store, result, caught, thrown, raised, writes, calls, now,
                   phaseStartTime, validations, monitored, reads>>

\* The backoff timer fires: i++.
BreakerBackoff ==
    /\ breaker.pc = "Backoff"
    /\ breaker' = [breaker EXCEPT !.pc = "Loop", !.i = @ + 1]
    /\ UNCHANGED <<phases, pc, sortedPhases, cur, taskState, taskResults, phaseResults,
                   store, result, caught, thrown, raised, writes, calls, now,
                   phaseStartTime, validations, monitored, reads>>

Next ==
    \/ StoreStarted
    \/ Resolve
    \/ PhaseStart
    \/ BatchDispatch
    \/ BatchTaskReturn
    \/ BatchJoin
    \/ SeqNext
    \/ SeqReturn
    \/ PhaseDone
    \/ Finalize
    \/ Catch

Spec == Init /\ [][Next]_vars

\* execute() when every call it awaits eventually returns or raises: a step
\* of the run that can be taken is eventually taken.  The runs are those on
\* pipelines with at most one dependency and one task a phase, and on staged
\* pipelines without tasks or with two tasks a phase.
InitFair ==
    /\ \/ ConstructedFrom(1, {1})
       \/ StagedFrom({0, 2})
    /\ Constructed

FairSpec == InitFair /\ [][Next]_vars /\ WF_vars(Next)

NextSort == HasCircularDependencies

SpecSort == InitSort /\ [][NextSort]_vars

\* execute() of one run, with validate() and monitor() called at any point.
InitCalls ==
    /\ \/ ConstructedFrom(1, {1})
       \/ StagedFrom({1})
    /\ Constructed

NextWithValidate ==
    \/ Next
    \/ Validate

SpecWithValidate == InitCalls /\ [][NextWithValidate]_vars

NextWithMonitor ==
    \/ Next
    \/ Monitor

SpecWithMonitor == InitCalls /\ [][NextWithMonitor]_vars

NextValidate == Validate

SpecValidate == InitValidate /\ [][NextValidate]_vars

\* The pipelines the three factories construct, over every combination of
\* their options.
InitFactories ==
    /\ \/ \E o \in FullStackOptions : phases = createFullStackPipeline(o)
       \/ \E o \in MLOptions : phases = createMLPipeline(o)
       \/ \E o \in CodeReviewOptions : phases = createCodeReviewPipeline(o)
    /\ Constructed

\* validate() and the resolver applied to a constructed pipeline.
NextFactories ==
    \/ Validate
    \/ HasCircularDependencies

SpecFactories == InitFactories /\ [][NextFactories]_vars

\* A withCircuitBreaker call on its own (no pipeline is involved).
InitBreaker ==
    /\ phases = <<>>
    /\ Constructed

NextBreaker ==
    \/ WithCircuitBreaker
    \/ BreakerLoop
    \/ BreakerRace
    \/ BreakerBackoff

SpecBreaker == InitBreaker /\ [][NextBreaker]_vars

\* ------------------------------------------------------ phase graphs
PhaseIds(ps) == {ps[i].id : i \in 1..Len(ps)}

\* The ids phase id names in its dependencies (none for an undeclared id).
DepsOf(ps, id) ==
    IF FindPhase(ps, id) = 0 THEN {} ELSE Range(ps[FindPhase(ps, id)].dependencies)

\* Every dependency names a declared phase.
FullyReferenced(ps) == \A i \in 1..Len(ps) : Range(ps[i].dependencies) \subseteq PhaseIds(ps)

\* The ids reachable from the ids of S along at most k dependency edges,
\* at least one.
RECURSIVE ReachWithin(_, _, _)
ReachWithin(ps, S, k) ==
    IF k = 0 THEN {}
    ELSE LET step == UNION {DepsOf(ps, id) : id \in S}
         IN  step \cup ReachWithin(ps, step, k - 1)

\* id lies on a dependency cycle (a self-dependency is a cycle of length 1).
OnCycle(ps, id) == id \in ReachWithin(ps, {id}, Len(ps))

HasCycle(ps) == \E id \in PhaseIds(ps) : OnCycle(ps, id)

ValidGraph(ps) == FullyReferenced(ps) /\ ~HasCycle(ps)

\* Position of phase position p in the resolved order (0: not in it).
OrderIndex(order, p) ==
    IF \E k \in 1..Len(order) : order[k] = p
    THEN CHOOSE k \in 1..Len(order) : order[k] = p
    ELSE 0

\* ------------------------------------------------------------- claims

\* C1: for a phase list with unique ids, an acyclic dependency graph and only
\* declared dependencies, topologicalSort returns every input phase exactly
\* once, each at a strictly later position than all phases it depends on.
C1_TopologicalOrder ==
    (pc = "Sorted" /\ ValidGraph(phases)) =>
        /\ thrown = NoError
        /\ Len(sortedPhases) = Len(phases)
        /\ Range(sortedPhases) = 1..Len(phases)
        /\ \A a, b \in 1..Len(sortedPhases) :
              phases[sortedPhases[b]].id \in Range(phases[sortedPhases[a]].dependencies)
                  => b < a

\* A valid three-phase list whose first phase has two dependencies was sorted,
\* into an order that differs from the input order.
C1_Witness ==
    /\ pc = "Sorted"
    /\ ValidGraph(phases)
    /\ Len(phases) = 3
    /\ Len(phases[1].dependencies) = 2
    /\ sortedPhases # <<1, 2, 3>>
    /\ Len(sortedPhases) = 3

\* C4: for a phase list whose dependency graph has a cycle (a self-dependency
\* included), topologicalSort returns no order: it throws the circular
\* dependency error, and the phase id the error names lies on a cycle.
C4_CycleDetected ==
    (pc = "Sorted" /\ HasCycle(phases)) =>
        /\ thrown.type = CircularError(0).type
        /\ OnCycle(phases, thrown.arg)
        /\ sortedPhases = <<>>

\* A cycle among later phases was reported although the first phase visited
\* lies on no cycle and only leads into it.
C4_Witness ==
    /\ pc = "Sorted"
    /\ Len(phases) = 3
    /\ ~OnCycle(phases, 1)
    /\ phases[1].dependencies # <<>>
    /\ OnCycle(phases, 2) /\ OnCycle(phases, 3)
    /\ thrown.arg \in {2, 3}

\* The Phase Results of the run for phase position p (at most one).
ResultsFor(p) == {k \in 1..Len(phaseResults) : phaseResults[k].phaseId = phases[p].id}
HasResult(p) == ResultsFor(p) # {}
ResultOf(p) == phaseResults[CHOOSE k \in ResultsFor(p) : TRUE]

NoTaskInvoked == \A p \in 1..Len(phases) : \A j \in 1..NumTasks(p) : ~Invoked(p, j)
NoPhaseCheckpoint == \A id \in PhaseIds(phases) : store.phase[id].status = "none"
TasksIn(p, S) == {j \in 1..NumTasks(p) : taskState[p][j] \in S}

\* C2: in a valid pipeline, a task of phase P is handed to the task executor
\* only if every phase named in P.dependencies already has a Phase Result with
\* success = true in this run.
C2_DependenciesSucceededFirst ==
    ValidGraph(phases) =>
        \A p \in 1..Len(phases) : \A j \in 1..NumTasks(p) :
            Invoked(p, j) =>
                \A d \in Range(phases[p].dependencies) :
                    \E k \in 1..Len(phaseResults) :
                        phaseResults[k].phaseId = d /\ phaseResults[k].success

\* The first declared phase depends on both later phases and has a task handed
\* to the executor.
C2_Witness ==
    /\ ValidGraph(phases)
    /\ Len(phases) = 3
    /\ Range(phases[1].dependencies) = {2, 3}
    /\ NumTasks(1) > 0
    /\ Invoked(1, 1)
    /\ Len(phaseResults) = 2

\* C3: once a phase has an unsuccessful Phase Result, it is the last one of the
\* run: the results are the prefix of the resolved order ending at it, no task
\* of a later phase of the resolved order is invoked, no checkpoint is written
\* for a later phase, and a returned Pipeline Result has success = false and
\* exactly those Phase Results.
C3_StopAtFailedPhase ==
    \A k \in 1..Len(phaseResults) :
        ~phaseResults[k].success =>
            /\ k = Len(phaseResults)
            /\ \A m \in 1..k : phaseResults[m].phaseId = Phase(m).id
            /\ \A m \in (k + 1)..Len(sortedPhases) :
                  /\ \A j \in 1..NumTasks(sortedPhases[m]) : ~Invoked(sortedPhases[m], j)
                  /\ store.phase[Phase(m).id].status = "none"
            /\ pc = "Returned" =>
                  /\ ~result.success
                  /\ result.phases = phaseResults

\* A run returned after its second phase failed, with a third phase that has
\* tasks left unattempted.
C3_Witness ==
    /\ pc = "Returned"
    /\ Len(sortedPhases) = 3
    /\ Len(phaseResults) = 2
    /\ phaseResults[1].success /\ ~phaseResults[2].success
    /\ NumTasks(sortedPhases[3]) > 0

\* C5 as stated: if the phase graph contains a cycle, execute() raises the
\* cycle error to its caller, no task is handed to the executor and no
\* checkpoint keyed by a phase id is written.
C5_CycleErrorRaised ==
    HasCycle(phases) =>
        /\ pc # "Returned"
        /\ pc = "Raised" => raised.type = CircularError(0).type
        /\ NoTaskInvoked
        /\ NoPhaseCheckpoint

\* C5 amended: if the phase graph contains a cycle, execute() never returns a
\* result, hands no task to the executor and writes no checkpoint keyed by a
\* phase id; it raises the cycle error (naming a phase on a cycle, and recorded
\* in the 'failed' checkpoint) when the 'started' and the 'failed' checkpoint
\* writes both succeed, and the error of the failing write otherwise.
C5_CycleAbortsRun ==
    HasCycle(phases) =>
        /\ pc # "Returned"
        /\ NoTaskInvoked
        /\ NoPhaseCheckpoint
        /\ pc = "Raised" =>
              IF store.run["started"].status = "none" THEN raised = StoreError(1)
              ELSE IF store.run["failed"].status = "none" THEN raised = StoreError(5)
              ELSE /\ raised.type = CircularError(0).type
                   /\ OnCycle(phases, raised.arg)
                   /\ store.run["failed"].error = raised

\* A two-phase cycle made execute() raise the cycle error after the 'started'
\* and 'failed' checkpoints were written, with tasks declared and none invoked.
C5_Witness ==
    /\ pc = "Raised"
    /\ Len(phases) = 2
    /\ phases[1].dependencies = <<2>> /\ phases[2].dependencies = <<1>>
    /\ NumTasks(1) > 0
    /\ raised.type = CircularError(0).type
    /\ store.run["started"].status = "running"
    /\ store.run["failed"].status = "failed"

\* C6 as stated: if a dependency names an id that is no phase of the pipeline,
\* execute() fails with a validation error at resolution time: it returns no
\* result, no task is invoked and no phase checkpoint is written.
C6_UnknownDependencyRejected ==
    ~FullyReferenced(phases) =>
        /\ pc # "Returned"
        /\ NoTaskInvoked
        /\ NoPhaseCheckpoint

\* C7: in a phase with parallel = false the tasks are invoked one at a time in
\* declared order, each only after the previous one returned success, so none
\* after the first failure; the Phase Result's success is true iff no invoked
\* task failed, and its counts are those of the invoked tasks.
C7_SequentialShortCircuit ==
    \A p \in 1..Len(phases) :
        ~phases[p].parallel =>
            /\ Cardinality(TasksIn(p, {"running"})) <= 1
            /\ \A j \in 2..NumTasks(p) : Invoked(p, j) => taskState[p][j - 1] = "ok"
            /\ HasResult(p) =>
                  /\ TasksIn(p, {"running", "threw"}) = {}
                  /\ ResultOf(p).success = (TasksIn(p, {"fail"}) = {})
                  /\ ResultOf(p).results.successfulTasks = Cardinality(TasksIn(p, {"ok"}))
                  /\ ResultOf(p).results.failedTasks = Cardinality(TasksIn(p, {"fail"}))
                  /\ ResultOf(p).results.totalTasks
                        = Cardinality(TasksIn(p, {"ok", "fail"}))

\* A sequential phase with tasks [ok, fail, never invoked] reported 1 success
\* and 1 failure.
C7_Witness ==
    \E p \in 1..Len(phases) :
        /\ ~phases[p].parallel
        /\ taskState[p] = <<"ok", "fail", "idle">>
        /\ HasResult(p)
        /\ ResultOf(p).results.successfulTasks = 1
        /\ ResultOf(p).results.failedTasks = 1
        /\ pc = "Returned"

C9_SuccessIffAllPhasesSucceeded ==
    pc = "Returned" =>
        (result.success <=>
            /\ \A p \in 1..Len(phases) :
                  \E k \in 1..Len(result.phases) : result.phases[k].phaseId = phases[p].id
            /\ \A k \in 1..Len(result.phases) : result.phases[k].success)

\* A three-phase run with tasks returned success = true.
C9_Witness ==
    /\ pc = "Returned"
    /\ result.success
    /\ Len(phases) = 3
    /\ Len(result.phases) = 3
    /\ NumTasks(1) > 0

\* C10 as stated: if a state-store write or a task-executor call raises during
\* execute(), the 'started' write included, execute() persists a 'failed'
\* checkpoint carrying that error and then rejects with that same error.
C10_FailureRecordedAndReraised ==
    (pc = "Raised" /\ thrown.type \in {StoreError(0).type, TaskError(0).type}) =>
        /\ store.run["failed"].status = "failed"
        /\ store.run["failed"].error = thrown
        /\ raised = thrown

\* Every task of every phase has an id, a description and an agent.
AllTasksWellFormed(ps) ==
    \A i \in 1..Len(ps) : \A j \in 1..Len(ps[i].tasks) :
        /\ ps[i].tasks[j].id # ""
        /\ ps[i].tasks[j].description # ""
        /\ ps[i].tasks[j].agent # ""

\* C11: every ValidationResult has isValid true exactly when its errors are
\* empty, and its errors are empty exactly when every dependency names a
\* declared phase, the phase graph is acyclic and every task has a non-empty id,
\* a non-empty description and an agent; so warnings and suggestions never
\* change isValid.
C11_ValidIffNoErrors ==
    \A k \in 1..Len(validations) :
        /\ validations[k].isValid = (validations[k].errors = <<>>)
        /\ (validations[k].errors = <<>>)
              = (/\ FullyReferenced(phases)
                 /\ ~HasCycle(phases)
                 /\ AllTasksWellFormed(phases))

\* A pipeline of more than 20 isolated parallel phases of 11 well-formed tasks
\* each was validated: a warning for every phase, both suggestions, and
\* isValid true.
C11_Witness ==
    /\ Len(validations) > 0
    /\ Len(phases) > LargeWorkflow
    /\ Len(validations[1].warnings) = Len(phases)
    /\ Len(validations[1].suggestions) = 2
    /\ validations[1].errors = <<>>
    /\ validations[1].isValid

C13_MonitorNeverRaises ==
    /\ monitored.status # MonitorRaised.status
    /\ (monitored.status # NoMonitoring.status /\ Entries(store) = {}) =>
          /\ monitored.status = "failed"
          /\ IsNumber(monitored.progress, 0)

\* The declared phases whose checkpoint has status completed.
CompletedPhases == {id \in PhaseIds(phases) : store.phase[id].status = "completed"}

\* The monitor() call of this step computed its result from a listing of the
\* checkpoints (it neither rejected nor took the degraded branch).
MonitorFromListing ==
    /\ Monitor
    /\ monitored'.status # MonitorRaised.status
    /\ monitored'.currentPhase.run # "unknown"

\* C14 as stated: for a pipeline of N >= 1 phases, the progress monitor()
\* computes from the listed checkpoints is 100 * (declared phases whose
\* checkpoint has status completed) / N; after an execute() that returned with
\* all N phases succeeded it is exactly 100.
C14_ProgressCountsCompletedPhases ==
    [][(MonitorFromListing /\ Len(phases) >= 1) =>
          /\ monitored'.progress.num * Len(phases)
                = 100 * Cardinality(CompletedPhases) * monitored'.progress.den
          /\ (pc = "Returned" /\ result.success) => IsNumber(monitored'.progress, 100)]_vars

\* C15: the metrics of every returned Pipeline Result satisfy failedTasks =
\* totalTasks - successfulTasks and 0 <= successfulTasks <= totalTasks, and
\* when totalTasks > 0 the qualityScore is successfulTasks / totalTasks.
C15_MetricsArithmetic ==
    pc = "Returned" =>
        /\ result.metrics.failedTasks = result.metrics.totalTasks - result.metrics.successfulTasks
        /\ 0 <= result.metrics.successfulTasks
        /\ result.metrics.successfulTasks <= result.metrics.totalTasks
        /\ result.metrics.totalTasks > 0 =>
              /\ result.metrics.qualityScore.den # 0
              /\ result.metrics.qualityScore.num * result.metrics.totalTasks
                    = result.metrics.successfulTasks * result.metrics.qualityScore.den

\* A run returned with some tasks succeeded, one failed and one never invoked.
C15_Witness ==
    /\ pc = "Returned"
    /\ result.metrics.totalTasks > 3
    /\ result.metrics.successfulTasks > 3
    /\ result.metrics.failedTasks = 2
    /\ \E p \in 1..Len(phases) : taskState[p] = <<"ok", "fail", "idle">>

\* The phase positions that have a task in flight.
PhasesInFlight == {p \in 1..Len(phases) : TasksIn(p, {"running"}) # {}}

\* The phase at position m of the resolved order was attempted: its start
\* checkpoint was written or one of its tasks was handed to the executor.
Attempted(m) ==
    \/ store.phase[Phase(m).id].status # "none"
    \/ \E j \in 1..NumTasks(sortedPhases[m]) : Invoked(sortedPhases[m], j)

\* C16: within one run phases never overlap: a phase is attempted only after
\* the previous phase of the resolved order has had every invoked task return
\* and its completed or failed checkpoint written, and at any instant the
\* tasks in flight all belong to one phase.
C16_PhasesNeverOverlap ==
    /\ Cardinality(PhasesInFlight) <= 1
    /\ \A m \in 2..Len(sortedPhases) :
          Attempted(m) =>
              /\ TasksIn(sortedPhases[m - 1], {"running"}) = {}
              /\ store.phase[Phase(m - 1).id].status \in {"completed", "failed"}
              /\ HasResult(sortedPhases[m - 1])

\* The second phase of the resolved order has tasks in flight after a parallel
\* first phase of three tasks completed.
C16_Witness ==
    /\ Len(sortedPhases) >= 2
    /\ cur = 2
    /\ phases[sortedPhases[1]].parallel
    /\ NumTasks(sortedPhases[1]) = 3
    /\ TasksIn(sortedPhases[2], {"running"}) # {}
    /\ TasksIn(sortedPhases[2], {"ok"}) # {}

\* The positions of the write log that hold the entry e.
WritesOf(e) == {i \in 1..Len(writes) : writes[i] = e}

\* C17: the checkpoints of a run are written in a fixed order: the run-level
\* 'started' checkpoint (status running) first; then, for the attempted phases
\* in resolved order, the phase's running checkpoint, written before any of
\* its tasks is invoked, followed by its completed or failed checkpoint, which
\* carries its Phase Result and is written after its invoked tasks returned;
\* and last the final run-level checkpoint, written before execute() returns,
\* whose status is completed iff the returned success is true.
C17_CheckpointOrder ==
    /\ (writes # <<>> \/ ~NoTaskInvoked) =>
          /\ Len(writes) >= 1
          /\ writes[1] = RunWrite("started", "running")
    /\ \A i \in 2..Len(writes) :
          \/ /\ writes[i].run \in {"completed", "failed"}
             /\ i = Len(writes)
          \/ /\ writes[i].run = ""
             /\ i \div 2 <= Len(sortedPhases)
             /\ writes[i].phase = Phase(i \div 2).id
             /\ IF i % 2 = 0 THEN writes[i].status = "running"
                ELSE /\ writes[i].status \in {"completed", "failed"}
                     /\ writes[i - 1] = PhaseWrite(writes[i].phase, "running")
    /\ \A p \in 1..Len(phases) :
          /\ (\E j \in 1..NumTasks(p) : Invoked(p, j)) =>
                WritesOf(PhaseWrite(phases[p].id, "running")) # {}
          /\ \A status \in {"completed", "failed"} :
                WritesOf(PhaseWrite(phases[p].id, status)) # {} =>
                    /\ TasksIn(p, {"running"}) = {}
                    /\ HasResult(p)
                    /\ ResultOf(p).success = (status = "completed")
                    /\ store.phase[phases[p].id].results = 1
    /\ pc = "Returned" =>
          writes[Len(writes)]
              = RunWrite("completed", IF result.success THEN "completed" ELSE "failed")

\* A run over three phases returned success = false after writing the
\* 'started' checkpoint, two checkpoints for each phase and the final one.
C17_Witness ==
    /\ pc = "Returned"
    /\ Len(sortedPhases) = 3
    /\ Len(writes) = 8
    /\ ~result.success
    /\ writes[8] = RunWrite("completed", "failed")
    /\ writes[7].status = "failed"

\* C18: in one run each task is handed to the task executor at most once and
\* each phase is attempted at most once (one start checkpoint, one Phase
\* Result), whatever came back and although the tasks' retry budgets are not
\* used up.
C18_NoRetries ==
    \A p \in 1..Len(phases) :
        /\ \A j \in 1..NumTasks(p) :
              /\ calls[p][j] <= 1
              /\ calls[p][j] = (IF Invoked(p, j) THEN 1 ELSE 0)
        /\ Cardinality(WritesOf(PhaseWrite(phases[p].id, "running"))) <= 1
        /\ Cardinality(ResultsFor(p)) <= 1

\* A run returned after a task with retries left failed on its only call, in
\* a phase that failed on its only attempt.
C18_Witness ==
    /\ pc = "Returned"
    /\ \E p \in 1..Len(phases) :
          /\ ~phases[p].parallel
          /\ NumTasks(p) >= 2
          /\ taskState[p][2] = "fail"
          /\ phases[p].tasks[2].retries > 0
          /\ calls[p][2] = 1
          /\ HasResult(p) /\ ~ResultOf(p).success
          /\ Cardinality(WritesOf(PhaseWrite(phases[p].id, "running"))) = 1

\* C19 as stated: an exception thrown by the task executor for one task never
\* escapes the phase: in sequential and in parallel phases alike the phase gets
\* a Phase Result, unsuccessful, that counts the task among its failures.
C19_TaskExceptionsRecorded ==
    /\ thrown.type # TaskError(0).type
    /\ \A p \in 1..Len(phases) :
          HasResult(p) =>
              /\ TasksIn(p, {"threw"}) # {} => ~ResultOf(p).success
              /\ ResultOf(p).results.failedTasks
                    = Cardinality(TasksIn(p, {"fail", "threw"}))

\* execute() is between the write of the current phase's start checkpoint and
\* the write of its completed or failed checkpoint.
InPhase ==
    /\ pc \in {"Dispatch", "AwaitBatch", "SeqNext", "SeqAwait", "PhaseDone"}
    /\ store.phase[CurPhase.id].status = "running"

\* The declared phases whose checkpoint has status running.
RunningPhases == {id \in PhaseIds(phases) : store.phase[id].status = "running"}

\* C20 as stated: a monitor() call made while execute() is between phase P's
\* start checkpoint and P's completed or failed checkpoint returns
\* currentPhase = P's id; a call made while checkpoints exist and no phase
\* checkpoint has status running returns 'completed' only with progress 100,
\* and 'unknown' or 'failed' otherwise.
C20_CurrentPhase ==
    [][/\ (MonitorFromListing /\ InPhase) =>
             monitored'.currentPhase = [run |-> "", phase |-> CurPhase.id]
       /\ (MonitorFromListing /\ Entries(store) # {} /\ RunningPhases = {}) =>
             IF IsNumber(monitored'.progress, 100)
             THEN monitored'.currentPhase.run \in {"completed", "unknown", "failed"}
             ELSE monitored'.currentPhase.run \in {"unknown", "failed"}]_vars

\* The phase positions that are ready once the first k positions of the order
\* are emitted: not emitted yet, with every dependency emitted.
ReadyAfter(order, k) ==
    LET emitted == {order[i] : i \in 1..k}
    IN  {p \in 1..Len(phases) \ emitted :
            Range(phases[p].dependencies) \subseteq {phases[e].id : e \in emitted}}

\* C21 as stated: in the order returned for a valid phase list, the phase
\* emitted at each point is, among the phases whose dependencies are all
\* emitted by then, the one that comes first in the input list.
C21_InputOrderTieBreak ==
    (pc = "Sorted" /\ ValidGraph(phases)) =>
        \A k \in 1..Len(sortedPhases) :
            \A p \in ReadyAfter(sortedPhases, k - 1) : sortedPhases[k] <= p

\* C22 as stated: a Pipeline Result returned by a run whose total task count
\* is 0 has qualityScore = 0.
C22_QualityScoreZeroWithoutTasks ==
    (pc = "Returned" /\ result.metrics.totalTasks = 0) =>
        IsNumber(result.metrics.qualityScore, 0)


\* The durations of the phase results carried by the completion checkpoints
\* of the phases in S, added up.
RECURSIVE RecordedDuration(_)
RecordedDuration(S) ==
    IF S = {} THEN 0
    ELSE LET id == CHOOSE x \in S : TRUE
         IN  store.phase[id].duration + RecordedDuration(S \ {id})

\* C23 as stated: the eta a monitor() call computes from a listing of the
\* checkpoints is the number of declared phases not yet completed times the
\* average duration, as the checkpoints record it, of the phases completed so
\* far, and 0 while no phase has completed.
C23_EtaFromCheckpointDurations ==
    [][MonitorFromListing =>
          IF CompletedPhases = {}
          THEN IsNumber(monitored'.eta, 0)
          ELSE /\ monitored'.eta.den # 0
               /\ monitored'.eta.num * Cardinality(CompletedPhases)
                     = (Len(phases) - Cardinality(CompletedPhases))
                          * RecordedDuration(CompletedPhases) * monitored'.eta.den]_vars

\* C24 as stated: once execute() has returned, a monitor() call that computes
\* its result from a listing of the checkpoints never reports 'running': it
\* reports 'completed' after a run in which every phase succeeded and 'failed'
\* after a run that stopped at a failed phase.  (Stated for pipelines with at
\* least one phase.)
C24_StatusAfterReturn ==
    [][(MonitorFromListing /\ pc = "Returned" /\ Len(phases) > 0) =>
          monitored'.status = IF result.success THEN "completed" ELSE "failed"]_vars

\* C25 as stated: the progress a monitor() call reports is at least 0 and at
\* most 100, whatever the state of the run.  (Stated for pipelines with at
\* least one phase, where progress is a quotient by a positive number.)
C25_ProgressWithinBounds ==
    Len(phases) > 0 =>
        /\ 0 <= monitored.progress.num
        /\ monitored.progress.num <= 100 * monitored.progress.den

\* C26 as stated: in the result of a returned run, metrics.failedTasks is the
\* number of tasks that were handed to the executor and came back failed (the
\* failed counts of the phase results added up) and metrics.totalTasks is the
\* number of tasks handed to the executor; tasks skipped after a failure in a
\* sequential phase count in neither.
C26_MetricsCountInvokedTasks ==
    pc = "Returned" =>
        /\ result.metrics.totalTasks
              = SumSeq([p \in 1..Len(phases) |->
                            Cardinality({j \in 1..NumTasks(p) : Invoked(p, j)})])
        /\ result.metrics.failedTasks
              = SumSeq([k \in 1..Len(phaseResults) |-> phaseResults[k].results.failedTasks])

\* The phase lists createFullStackPipeline can construct.
FullStackPipelines == {createFullStackPipeline(o) : o \in FullStackOptions}

\* C27 as stated: for every combination of the include* options the pipeline
\* createFullStackPipeline builds has a valid phase graph (every dependency
\* names an included phase, and there is no cycle), and every validate() call
\* on it returns isValid = true.
C27_FullStackPipelineValid ==
    (phases \in FullStackPipelines /\ Len(validations) > 0) =>
        /\ ValidGraph(phases)
        /\ \A k \in 1..Len(validations) : validations[k].isValid

\* C29: for every option combination of the three factories, the order the
\* resolver produces for the constructed pipeline is the order in which the
\* factory declared the phases, and the resolver raises no error.
C29_FactoryOrderIsDeclarationOrder ==
    pc = "Sorted" =>
        /\ thrown = NoError
        /\ sortedPhases = [k \in 1..Len(phases) |-> k]

\* The resolver was applied to the full-stack pipeline with every option on:
\* eight phases, testing and documentation with several dependencies.
C29_Witness ==
    /\ pc = "Sorted"
    /\ phases = createFullStackPipeline([o \in DOMAIN FullStackDefaults |-> TRUE])
    /\ Len(sortedPhases) = 8

\* C28: provided every call of the task executor and of the state store
\* eventually returns or raises, every execute() call terminates: it
\* eventually returns a result or raises an error.
C28_ExecuteTerminates == <>(pc \in {"Returned", "Raised"})

\* A run over several phases has returned.
C28_Witness ==
    /\ pc = "Returned"
    /\ Len(phaseResults) >= 2
    /\ Len(writes) >= 6

\* The error of attempt n that ended as outcome says.
AttemptError(outcome, n) ==
    IF outcome = "timeout" THEN TimeoutError(n) ELSE FnError(n)

====
